---- MODULE Spec2Model ----
(***************************************************************************)
(* Model of src/bot.py: the user registry (DataStorage), the notification  *)
(* setup conversation (BotHandlers + the handler table built in main) and  *)
(* the scheduler loop (NotificationService).                               *)
(*                                                                         *)
(* Times of day (datetime.time(h, m)) are minutes since midnight, h*60+m;  *)
(* the clock is minutes since day 0, 00:00 UTC.  Optional[float] values    *)
(* are <<>> for None and <<v>> for the number v.                           *)
(***************************************************************************)
EXTENDS Integers, Sequences, FiniteSets, TLC

VARIABLES
    users,        \* DataStorage.users: user id -> UserData
    order,        \* insertion order of the keys of DataStorage.users
    disk,         \* content of DATA_FILE, <<>> while the file does not exist
    diskFaulty,   \* environment: whether a save may fail (fixed by Init)
    lastCall,     \* history: the DataStorage method called directly in the last step
    conv,         \* ConversationHandler state of notification_conv, per user
    user_data,    \* context.user_data, per user
    prompt,       \* the reply last shown to the user, named by its keyboard or notice
    menu,         \* the times on the buttons of the last delete menu, per user
    sent_notifications, \* DataStorage.sent_notifications (its keys)
    clock,        \* the current UTC time, in minutes
    hostOffset,   \* environment: host local time minus UTC, in minutes
    pc,           \* where check_and_send_notifications is
    now,          \* the tick's captured datetime.utcnow(), to the minute
    snap,         \* the tick's list(self.storage.users.items())
    ui,           \* index of the tick's outer loop in snap
    si,           \* index of the tick's inner loop in user.schedules
    cur_key,      \* the tick's notification_key while it awaits the send
    sends,        \* history: the scheduler's bot.send_message calls, per key
    failed,       \* history: keys of the running tick whose weather fetch failed
    expected,     \* history: the keys due by the profiles as the tick listed them
    fetched,      \* history: the last weather the provider returned, with the
                  \* coordinates asked for and the minute of the pass that asked
    provider_called, \* history: the last weather request of the pass went to the
                  \* provider
    lost,         \* history: the keys that were in sent_notifications when a
                  \* process ended
    tested        \* history: per user, what the last test notification did and
                  \* whether a key of the user on that date was marked then

regVars   == <<users, order, disk, diskFaulty, lastCall>>
dlgVars   == <<conv, user_data, prompt, menu>>
tickVars  == <<sent_notifications, clock, hostOffset, pc, now, snap, ui, si, cur_key>>
histVars  == <<sends, failed, expected, fetched, provider_called>>
vars      == <<regVars, dlgVars, tickVars, histVars, lost, tested>>

---------------------------------------------------------------------------
(* Bounds and input sets *)

MaxDay == 1                     \* the clock runs over days 0..MaxDay

Uids == {1, 2}

MinutesPerDay == 24 * 60

None == <<>>
Some(v) == <<v>>

T(h, m) == h * 60 + m

\* the instants at which the given minutes of the day are on the clock
Instants(minutes) == {d * MinutesPerDay + m : d \in 0..MaxDay, m \in minutes}

\* host time zones: UTC, and ten hours behind UTC
HostOffsets == {0, 0 - 600}

---------------------------------------------------------------------------
(* UserData and DataStorage *)

\* UserData(user_id=user_id): the all-default profile
UserData(user_id) ==
    [user_id |-> user_id, lat |-> None, lon |-> None,
     has_location |-> FALSE, schedules |-> <<>>]

\* t.strftime("%H:%M"): the two zero-padded fields, as numbers
strftime(t) == <<t \div 60, t % 60>>

\* UserData.to_dict
to_dict(user) ==
    [user_id |-> user.user_id, lat |-> user.lat, lon |-> user.lon,
     has_location |-> user.has_location,
     schedules |-> [i \in 1..Len(user.schedules) |-> strftime(user.schedules[i])]]

\* the dictionary save_data dumps: str(user_id) -> to_dict, in insertion order
data_to_save(us, ord) ==
    [order |-> ord, data |-> [u \in DOMAIN us |-> to_dict(us[u])]]

\* A storage state S is [users, order, disk, oks, met, writes]: oks are the
\* outcomes of the save_data calls still to come in the running operation, met
\* those of the calls it has made.

\* what one save_data call meets: "ok", the file is written; "fail", the call
\* raises before open(DATA_FILE, 'w') has succeeded; "torn", it raises in
\* json.dump, after open has emptied the file
SaveResults == {"ok", "fail", "torn"}

\* the file a write left unfinished: json.load cannot read it
Torn == Some([torn |-> TRUE])

\* save_data whose failure leaves no file at all
save_data_unlinks(S) ==
    [S EXCEPT !.disk = IF Head(S.oks) = "ok"
                       THEN Some(data_to_save(S.users, S.order))
                       ELSE None,
              !.oks = Tail(S.oks),
              !.met = Append(S.met, Head(S.oks)),
              !.writes = S.writes + 1]

\* DataStorage.save_data: what is raised is logged and swallowed
save_data(S) ==
    [S EXCEPT !.disk = IF Head(S.oks) = "ok"
                       THEN Some(data_to_save(S.users, S.order))
                       ELSE IF Head(S.oks) = "torn" THEN Torn
                       ELSE S.disk,
              !.oks = Tail(S.oks),
              !.met = Append(S.met, Head(S.oks)),
              !.writes = S.writes + 1]

\* str(user_id): the decimal digits of a user id, most significant first
RECURSIVE str(_)
str(n) == IF n < 10 THEN <<n>> ELSE Append(str(n \div 10), n % 10)

\* int(user_id_str)
RECURSIVE int(_)
int(s) == IF s = <<>> THEN 0 ELSE 10 * int(SubSeq(s, 1, Len(s) - 1)) + s[Len(s)]

\* from_dict that reads the hour on a 12-hour clock
from_dict_12h(data) ==
    LET parses(f) == f[1] \in 0..23 /\ f[2] \in 0..59
        kept == SelectSeq(data.schedules, parses)
    IN  [user_id |-> data.user_id, lat |-> data.lat, lon |-> data.lon,
         has_location |-> data.has_location,
         schedules |-> [i \in 1..Len(kept) |-> T(kept[i][1] % 12, kept[i][2])]]

\* UserData.from_dict: h, m = map(int, t.split(":")) and time(h, m) for each
\* entry; an entry for which time() raises ValueError is skipped
from_dict(data) ==
    LET parses(f) == f[1] \in 0..23 /\ f[2] \in 0..59
        kept == SelectSeq(data.schedules, parses)
    IN  [user_id |-> data.user_id, lat |-> data.lat, lon |-> data.lon,
         has_location |-> data.has_location,
         schedules |-> [i \in 1..Len(kept) |-> T(kept[i][1], kept[i][2])]]

\* DataStorage._load_data on the file: nothing is loaded when the file does
\* not exist or json.load raises; else every entry is loaded in file order
\* under the key int(user_id_str), the key under which save_data wrote it
\* being str(user_id)
load_data(file) ==
    IF file = None \/ file = Torn
    THEN [users |-> <<>>, order |-> <<>>]
    ELSE LET saved == file[1]
             key(u) == int(str(u))
             ids == {key(u) : u \in DOMAIN saved.data}
             entry(id) == saved.data[CHOOSE u \in DOMAIN saved.data : key(u) = id]
         IN  [users |-> [id \in ids |->
                            from_dict([entry(id) EXCEPT !.user_id = id])],
              order |-> [i \in 1..Len(saved.order) |-> key(saved.order[i])]]

\* get_user that creates the profile without saving it
get_user_unsaved(S, uid) ==
    IF uid \notin DOMAIN S.users
    THEN [S EXCEPT !.users = (uid :> UserData(uid)) @@ S.users,
                   !.order = Append(S.order, uid)]
    ELSE S

\* DataStorage.get_user as a state change (the returned object is S.users[uid])
get_user(S, uid) ==
    IF uid \notin DOMAIN S.users
    THEN save_data([S EXCEPT !.users = (uid :> UserData(uid)) @@ S.users,
                             !.order = Append(S.order, uid)])
    ELSE S

\* DataStorage.update_user_location
update_user_location(S, uid, lat, lon) ==
    LET S1 == get_user(S, uid)
    IN save_data([S1 EXCEPT !.users[uid].lat = Some(lat),
                            !.users[uid].lon = Some(lon),
                            !.users[uid].has_location = TRUE])

\* the sort left out
sort_skipped(s) == s

\* list.sort() of a list of times: insertion of t into a sorted list is what
\* append + sort does to a list that was sorted; sort sorts any list
RECURSIVE sort(_)
Insert(s, t) ==
    LET k == Cardinality({i \in 1..Len(s) : s[i] <= t})
    IN SubSeq(s, 1, k) \o <<t>> \o SubSeq(s, k + 1, Len(s))
sort(s) == IF s = <<>> THEN <<>> ELSE Insert(sort(Tail(s)), Head(s))

InSeq(t, s) == \E i \in 1..Len(s) : s[i] = t

\* list.remove(t): removes the first occurrence
RemoveFirst(s, t) ==
    LET k == CHOOSE i \in 1..Len(s) : s[i] = t /\ \A j \in 1..(i - 1) : s[j] # t
    IN SubSeq(s, 1, k - 1) \o SubSeq(s, k + 1, Len(s))

\* list.pop(idx) with a 0-based idx in range
PopAt(s, idx) == SubSeq(s, 1, idx) \o SubSeq(s, idx + 2, Len(s))

\* the `if schedule_time not in user.schedules` left out
add_schedule_unchecked(S, uid, schedule_time) ==
    [S |-> save_data([get_user(S, uid) EXCEPT !.users[uid].schedules =
                         sort(Append(@, schedule_time))]),
     ret |-> TRUE]

\* add_schedule with `return True` on both paths
add_schedule_says_true(S, uid, schedule_time) ==
    LET S1 == get_user(S, uid)
    IN IF InSeq(schedule_time, S1.users[uid].schedules)
       THEN [S |-> S1, ret |-> TRUE]
       ELSE [S |-> save_data([S1 EXCEPT !.users[uid].schedules =
                                 sort(Append(@, schedule_time))]),
             ret |-> TRUE]

\* DataStorage.add_schedule: [S, ret]
add_schedule(S, uid, schedule_time) ==
    LET S1 == get_user(S, uid)
    IN IF InSeq(schedule_time, S1.users[uid].schedules)
       THEN [S |-> S1, ret |-> FALSE]
       ELSE [S |-> save_data([S1 EXCEPT !.users[uid].schedules =
                                 sort(Append(@, schedule_time))]),
             ret |-> TRUE]

\* remove_schedule without its save_data call
remove_schedule_unsaved(S, uid, schedule_time) ==
    LET S1 == get_user(S, uid)
    IN IF InSeq(schedule_time, S1.users[uid].schedules)
       THEN [S |-> [S1 EXCEPT !.users[uid].schedules =
                       RemoveFirst(@, schedule_time)],
             ret |-> TRUE]
       ELSE [S |-> S1, ret |-> FALSE]

\* DataStorage.remove_schedule: [S, ret]
remove_schedule(S, uid, schedule_time) ==
    LET S1 == get_user(S, uid)
    IN IF InSeq(schedule_time, S1.users[uid].schedules)
       THEN [S |-> save_data([S1 EXCEPT !.users[uid].schedules =
                                 RemoveFirst(@, schedule_time)]),
             ret |-> TRUE]
       ELSE [S |-> S1, ret |-> FALSE]

\* clear_schedules that counts the entries after it has cleared them
clear_schedules_counts_after(S, uid) ==
    LET S1 == get_user(S, uid)
        S2 == [S1 EXCEPT !.users[uid].schedules = <<>>]
    IN [S |-> save_data(S2), ret |-> Len(S2.users[uid].schedules)]

\* DataStorage.clear_schedules: [S, ret]
clear_schedules(S, uid) ==
    LET S1 == get_user(S, uid)
    IN [S |-> save_data([S1 EXCEPT !.users[uid].schedules = <<>>]),
        ret |-> Len(S1.users[uid].schedules)]

\* reset_user that keeps the trigger list of the old profile
reset_user_keeps_schedules(S, uid) ==
    save_data([S EXCEPT !.users =
                   (uid :> [UserData(uid) EXCEPT !.schedules =
                               IF uid \in DOMAIN S.users
                               THEN S.users[uid].schedules ELSE <<>>]) @@ S.users,
                        !.order = IF uid \in DOMAIN S.users THEN S.order
                                  ELSE Append(S.order, uid)])

\* reset_user that deletes the profile
reset_user_deletes(S, uid) ==
    save_data([S EXCEPT !.users = [v \in DOMAIN S.users \ {uid} |-> S.users[v]],
                        !.order = SelectSeq(S.order, LAMBDA v : v # uid)])

\* DataStorage.reset_user: rebinds users[uid] to a new object; an existing key
\* keeps its place in the dictionary
reset_user(S, uid) ==
    save_data([S EXCEPT !.users = (uid :> UserData(uid)) @@ S.users,
                        !.order = IF uid \in DOMAIN S.users THEN S.order
                                  ELSE Append(S.order, uid)])

---------------------------------------------------------------------------
(* Inbound texts.  A text is [id, first, parts]: id identifies the whole     *)
(* string (== on texts), first is its first character (what the handler      *)
(* table's prefix patterns look at), parts is text.split(), each word given  *)
(* as the list of its ":"-separated fields, a field being <<n>> when int()   *)
(* reads it as n and <<>> when int() raises ValueError.                      *)

Word == <<None>>                       \* a word without ":" that is no number
TimeWord(h, m) == <<Some(h), Some(m)>> \* "HH:MM"

SetupText  == [id |-> <<"setup", 0, 0>>, first |-> "alarm", parts |-> <<Word, Word, Word>>]
CancelBtn  == [id |-> <<"cancel", 0, 0>>, first |-> "back", parts |-> <<Word, Word>>]
BackBtn    == [id |-> <<"back", 0, 0>>, first |-> "back", parts |-> <<Word, Word>>]
YesMore    == [id |-> <<"yes_more", 0, 0>>, first |-> "check", parts |-> <<Word, Word, Word, Word>>]
NoFinish   == [id |-> <<"no_finish", 0, 0>>, first |-> "cross", parts |-> <<Word, Word, Word>>]
ResetText  == [id |-> <<"reset", 0, 0>>, first |-> "arrows", parts |-> <<Word, Word, Word>>]
ShowText   == [id |-> <<"show", 0, 0>>, first |-> "clipboard", parts |-> <<Word, Word, Word>>]
DeleteText == [id |-> <<"delete", 0, 0>>, first |-> "bin", parts |-> <<Word, Word, Word>>]
TestText   == [id |-> <<"test", 0, 0>>, first |-> "bell", parts |-> <<Word, Word, Word>>]
WeatherText == [id |-> <<"weather", 0, 0>>, first |-> "sun_cloud", parts |-> <<Word, Word, Word>>]
CancelCmd  == [id |-> <<"/cancel", 0, 0>>, first |-> "/", parts |-> <<Word>>]
StartCmd   == [id |-> <<"/start", 0, 0>>, first |-> "/", parts |-> <<Word>>]
OtherText  == [id |-> <<"other", 0, 0>>, first |-> "letter", parts |-> <<Word, Word>>]

\* the label of band i of hour_ranges; i = 0: a text that starts with a clock
\* face and is no label
BandText(i) == [id |-> <<"band", i, 0>>, first |-> "clock", parts |-> <<Word, Word, Word>>]

\* WeatherService.get_time_emoji
get_time_emoji(hour) ==
    IF 0 <= hour /\ hour < 4 THEN "moon"
    ELSE IF 4 <= hour /\ hour < 8 THEN "sunrise"
    ELSE IF 8 <= hour /\ hour < 12 THEN "sun"
    ELSE IF 12 <= hour /\ hour < 16 THEN "sun_face"
    ELSE IF 16 <= hour /\ hour < 20 THEN "sunset"
    ELSE "night"

\* a button of the time keyboard, f"{emoji} {hour:02d}:{minute:02d}", or the
\* same text typed by hand with any two numbers
TimeText(h, m) ==
    [id |-> <<"time", h, m>>, first |-> get_time_emoji(h), parts |-> <<Word, TimeWord(h, m)>>]

\* "HH:MM" typed without the emoji: one word
BareTimeText(h, m) ==
    [id |-> <<"bare", h, m>>, first |-> "digit", parts |-> <<TimeWord(h, m)>>]

\* context.user_data["hour_ranges"] as setup_notifications stores it
HourRanges ==
    << [text |-> BandText(1), start |-> 0,  end |-> 3],
       [text |-> BandText(2), start |-> 4,  end |-> 7],
       [text |-> BandText(3), start |-> 8,  end |-> 11],
       [text |-> BandText(4), start |-> 12, end |-> 15],
       [text |-> BandText(5), start |-> 16, end |-> 19],
       [text |-> BandText(6), start |-> 20, end |-> 23] >>

END == "END"                    \* ConversationHandler.END
SETTING_TIME == "SETTING_TIME"

IsCommand(text) == text.first = "/"

\* The handler an inbound text reaches: all handlers are in group 0, so the
\* first one in registration order whose filter matches takes the update.
Route(cv, text) ==
    IF text.id = StartCmd.id THEN "start"
    ELSE IF text.id = CancelCmd.id THEN "cancel"
    ELSE IF text.id = WeatherText.id THEN "weather_current"
    ELSE IF text.id = ShowText.id THEN "show_notifications"
    ELSE IF text.id = TestText.id THEN "send_test_notification"
    ELSE IF text.id = DeleteText.id THEN "delete_notifications"
    ELSE IF text.id = ResetText.id THEN "reset_data"
    ELSE IF cv = END /\ text.id = SetupText.id THEN "setup_notifications"
    ELSE IF cv = SETTING_TIME /\ text.first = "clock" THEN "handle_time_range"
    ELSE IF cv = SETTING_TIME /\ text.first \in {"check", "cross"}
         THEN "handle_continue_choice"
    ELSE IF cv = SETTING_TIME /\ ~IsCommand(text) THEN "save_notification_time"
    ELSE IF ~IsCommand(text) THEN "handle_unknown"
    ELSE "none"

---------------------------------------------------------------------------
(* Handlers.  The bot processes updates one at a time, so a handler runs to  *)
(* its end before the next update; the scheduler task runs between their     *)
(* steps only while it is suspended itself (in bot.send_message or in        *)
(* asyncio.sleep), which is when handlers are enabled.  Replies of handlers  *)
(* are taken to be delivered.                                                *)

LoopSuspended == pc \in {"sleep", "send"}

\* outcomes of the (at most two) save_data calls of one operation
SaveOutcomes ==
    IF diskFaulty THEN {<<a, b>> : a \in SaveResults, b \in SaveResults}
    ELSE {<<"ok", "ok">>}

Store(oks) ==
    [users |-> users, order |-> order, disk |-> disk, oks |-> oks, met |-> <<>>,
     writes |-> 0]

NoCall ==
    [op |-> "none", uid |-> 0, arg |-> <<"none", 0>>, ret |-> <<"none", 0>>,
     old |-> <<>>, writes |-> 0, oks |-> <<>>]

Write(S) ==
    /\ users' = S.users
    /\ order' = S.order
    /\ disk' = S.disk

Commit(S) == Write(S) /\ lastCall' = NoCall /\ UNCHANGED diskFaulty

\* what a handler leaves behind for user u: the storage, the conversation
\* state, context.user_data and the keyboard shown
Reply(u, S, cv, ud, pr) ==
    /\ Commit(S)
    /\ conv' = [conv EXCEPT ![u] = cv]
    /\ user_data' = [user_data EXCEPT ![u] = ud]
    /\ prompt' = [prompt EXCEPT ![u] = pr]

NoUserData == [hour_ranges |-> <<>>, selected_range |-> <<>>]

\* setup_notifications without the has_location test: the dialog opens for
\* every user
setup_notifications_unguarded(S0, ud, uid) ==
    LET S == get_user(S0, uid)
    IN [S |-> S, ret |-> SETTING_TIME,
        ud |-> [ud EXCEPT !.hour_ranges = HourRanges], pr |-> "ranges"]

\* BotHandlers.setup_notifications: [S, ret, ud, pr]; the reply of the
\* no-location branch is the request to set a location first
setup_notifications(S0, ud, uid) ==
    LET S == get_user(S0, uid)
    IN IF ~S.users[uid].has_location
       THEN [S |-> S, ret |-> END, ud |-> ud, pr |-> "need_location"]
       ELSE [S |-> S, ret |-> SETTING_TIME,
             ud |-> [ud EXCEPT !.hour_ranges = HourRanges], pr |-> "ranges"]

\* the loop of handle_time_range over hour_ranges: the first band whose label
\* is the text, <<>> when there is none
SelectedRange(hour_ranges, time_text) ==
    LET hits == {i \in 1..Len(hour_ranges) : hour_ranges[i].text.id = time_text.id}
    IN IF hits = {} THEN <<>>
       ELSE LET i == CHOOSE k \in hits : \A j \in hits : k <= j
            IN <<hour_ranges[i].start, hour_ranges[i].end, i>>

\* handle_time_range that leaves the dialog active when no label matches
handle_time_range_stays(S, ud, time_text) ==
    IF time_text.id = CancelBtn.id
    THEN [S |-> S, ret |-> END, ud |-> ud, pr |-> "main"]
    ELSE LET selected_range == SelectedRange(ud.hour_ranges, time_text)
         IN IF selected_range = <<>>
            THEN [S |-> S, ret |-> SETTING_TIME, ud |-> ud, pr |-> "invalid_range"]
            ELSE [S |-> S, ret |-> SETTING_TIME,
                  ud |-> [ud EXCEPT !.selected_range = selected_range],
                  pr |-> "times"]

\* BotHandlers.handle_time_range: [S, ret, ud, pr]; the reply when no label
\* matches is the notice that the range is invalid
handle_time_range(S, ud, time_text) ==
    IF time_text.id = CancelBtn.id
    THEN [S |-> S, ret |-> END, ud |-> ud, pr |-> "main"]
    ELSE LET selected_range == SelectedRange(ud.hour_ranges, time_text)
         IN IF selected_range = <<>>
            THEN [S |-> S, ret |-> END, ud |-> ud, pr |-> "invalid_range"]
            ELSE [S |-> S, ret |-> SETTING_TIME,
                  ud |-> [ud EXCEPT !.selected_range = selected_range],
                  pr |-> "times"]

\* the try block of save_notification_time up to time(hours, minutes): the
\* parsed time as <<t>>, <<>> when ValueError or IndexError is raised
ParseTime(time_text) ==
    LET parts == time_text.parts
    IN IF Len(parts) < 2 THEN <<>>
       ELSE LET fields == parts[2]
            IN IF Len(fields) # 2 \/ fields[1] = None \/ fields[2] = None THEN <<>>
               ELSE LET hours == fields[1][1]
                        minutes == fields[2][1]
                    IN IF ~(0 <= hours /\ hours <= 23 /\ 0 <= minutes /\ minutes <= 59)
                       THEN <<>>
                       ELSE <<T(hours, minutes)>>

\* save_notification_time that ends the dialog when add_schedule returns False
save_notification_time_dup_ends(S, ud, uid, time_text) ==
    IF time_text.id = CancelBtn.id
    THEN [S |-> S, ret |-> END, ud |-> ud, pr |-> "main"]
    ELSE IF time_text.id = BackBtn.id
    THEN setup_notifications(S, ud, uid)
    ELSE LET parsed == ParseTime(time_text)
         IN IF parsed = <<>>
            THEN setup_notifications(S, ud, uid)
            ELSE LET r == add_schedule(S, uid, parsed[1])
                 IN [S |-> r.S, ret |-> IF r.ret THEN SETTING_TIME ELSE END,
                     ud |-> ud, pr |-> IF r.ret THEN "continue" ELSE "main"]

\* BotHandlers.save_notification_time: [S, ret, ud, pr]
save_notification_time(S, ud, uid, time_text) ==
    IF time_text.id = CancelBtn.id
    THEN [S |-> S, ret |-> END, ud |-> ud, pr |-> "main"]
    ELSE IF time_text.id = BackBtn.id
    THEN setup_notifications(S, ud, uid)
    ELSE LET parsed == ParseTime(time_text)
         IN IF parsed = <<>>
            THEN setup_notifications(S, ud, uid)
            ELSE [S |-> add_schedule(S, uid, parsed[1]).S, ret |-> SETTING_TIME,
                  ud |-> ud, pr |-> "continue"]

\* BotHandlers.handle_continue_choice: [S, ret, ud, pr]
handle_continue_choice(S, ud, uid, choice) ==
    IF choice.id = YesMore.id
    THEN setup_notifications(S, ud, uid)
    ELSE [S |-> S, ret |-> END, ud |-> ud, pr |-> "main"]

\* The tick holds the UserData objects it listed.  reset_user rebinds the
\* registry entry to a new object, so an entry of snap that was the registry's
\* object keeps the old one: obj is <<>> while the entry is the registry's
\* object and <<the old object>> after a rebinding.  An entry the loop has
\* passed is not read again and is left as it is.
Detach(sn, uid, old) ==
    [i \in 1..Len(sn) |->
        IF sn[i].uid = uid /\ sn[i].obj = <<>> /\ i >= ui
        THEN [sn[i] EXCEPT !.obj = <<old>>] ELSE sn[i]]

Handled(u, text, name) == LoopSuspended /\ Route(conv[u], text) = name

DlgFrame == UNCHANGED <<menu, tickVars, histVars, lost, tested>>

\* entry point of notification_conv
SetupNotifications(u, text, oks) ==
    /\ Handled(u, text, "setup_notifications")
    /\ LET R == setup_notifications(Store(oks), user_data[u], u)
       IN Reply(u, R.S, R.ret, R.ud, R.pr)
    /\ DlgFrame

HandleTimeRange(u, text, oks) ==
    /\ Handled(u, text, "handle_time_range")
    /\ LET R == handle_time_range(Store(oks), user_data[u], text)
       IN Reply(u, R.S, R.ret, R.ud, R.pr)
    /\ DlgFrame

HandleContinueChoice(u, text, oks) ==
    /\ Handled(u, text, "handle_continue_choice")
    /\ LET R == handle_continue_choice(Store(oks), user_data[u], u, text)
       IN Reply(u, R.S, R.ret, R.ud, R.pr)
    /\ DlgFrame

SaveNotificationTime(u, text, oks) ==
    /\ Handled(u, text, "save_notification_time")
    /\ LET R == save_notification_time(Store(oks), user_data[u], u, text)
       IN Reply(u, R.S, R.ret, R.ud, R.pr)
    /\ DlgFrame

\* BotHandlers.cancel reached through the application's own /cancel handler:
\* its return value is not a conversation result there
Cancel(u, text, oks) ==
    /\ Handled(u, text, "cancel")
    /\ Reply(u, Store(oks), conv[u], user_data[u], "main")
    /\ DlgFrame

\* BotHandlers.handle_unknown
HandleUnknown(u, text, oks) ==
    /\ Handled(u, text, "handle_unknown")
    /\ Reply(u, Store(oks), conv[u], user_data[u], "main")
    /\ DlgFrame

\* BotHandlers.start
Start(u, text, oks) ==
    /\ Handled(u, text, "start")
    /\ Reply(u, get_user(Store(oks), u), conv[u], user_data[u], "main")
    /\ DlgFrame

\* BotHandlers.handle_location (a location message, not a text)
HandleLocation(u, lat, lon, oks) ==
    /\ LoopSuspended
    /\ Reply(u, update_user_location(Store(oks), u, lat, lon),
             conv[u], user_data[u], "main")
    /\ DlgFrame

\* BotHandlers.reset_data
ResetData(u, text, oks) ==
    /\ Handled(u, text, "reset_data")
    /\ Reply(u, reset_user(Store(oks), u), conv[u], user_data[u], "main")
    /\ snap' = IF u \in DOMAIN users THEN Detach(snap, u, users[u]) ELSE snap
    /\ UNCHANGED <<menu, sent_notifications, clock, hostOffset, pc, now, ui, si, cur_key>>
    /\ UNCHANGED <<histVars, lost, tested>>

\* BotHandlers.show_notifications: the in-place sort is not followed by a save
ShowNotifications(u, text, oks) ==
    /\ Handled(u, text, "show_notifications")
    /\ LET S == get_user(Store(oks), u)
           user == S.users[u]
       IN IF user.schedules = <<>>
          THEN Reply(u, S, conv[u], user_data[u], "main")
          ELSE Reply(u, [S EXCEPT !.users[u].schedules = sort(@)],
                     conv[u], user_data[u], prompt[u])
    /\ DlgFrame

\* BotHandlers.delete_notifications: shows one button per schedule entry
DeleteNotifications(u, text, oks) ==
    /\ Handled(u, text, "delete_notifications")
    /\ LET S == get_user(Store(oks), u)
           user == S.users[u]
       IN IF user.schedules = <<>>
          THEN /\ Reply(u, S, conv[u], user_data[u], "main")
               /\ UNCHANGED menu
          ELSE /\ Reply(u, [S EXCEPT !.users[u].schedules = sort(@)],
                        conv[u], user_data[u], prompt[u])
               /\ menu' = [menu EXCEPT ![u] = sort(user.schedules)]
    /\ UNCHANGED <<tickVars, histVars, lost, tested>>

\* the button with this callback data is on the delete menu the user has
OnMenu(u, data) ==
    /\ menu[u] # <<>>
    /\ data[1] = "del" => (0 <= data[2] /\ data[2] < Len(menu[u]))

\* BotHandlers.handle_delete_callback with query.data "del_cancel", "del_all"
\* or "del_<idx>" (data = <<"del", idx>>).  Every branch ends in
\* query.edit_message_text without a reply_markup: the message of the pressed
\* button loses its buttons.
HandleDeleteCallback(u, data, oks) ==
    /\ LoopSuspended
    /\ LET S == get_user(Store(oks), u)
           user == S.users[u]
       IN IF data = <<"del_cancel", 0>>
          THEN Commit(S)
          ELSE IF data = <<"del_all", 0>>
          THEN Commit(clear_schedules(S, u).S)
          ELSE IF 0 <= data[2] /\ data[2] < Len(user.schedules)
          THEN Commit(save_data([S EXCEPT !.users[u].schedules = PopAt(@, data[2])]))
          ELSE Commit(S)
    /\ menu' = IF OnMenu(u, data) THEN [menu EXCEPT ![u] = <<>>] ELSE menu
    /\ UNCHANGED <<conv, user_data, prompt, tickVars, histVars, lost, tested>>

---------------------------------------------------------------------------
(* Calls of the DataStorage methods themselves.  lastCall keeps the method,  *)
(* its arguments and what it returned (each as <<method, value>>, the values *)
(* of different methods being of different kinds), the user's entry in the   *)
(* registry before the call (<<>>: none, <<profile>>), the number of         *)
(* save_data calls and what each met; a handler that runs leaves NoCall.     *)

Called(op, uid, arg, ret, S) ==
    /\ LoopSuspended
    /\ Write(S)
    /\ lastCall' = [op |-> op, uid |-> uid, arg |-> <<op, arg>>, ret |-> <<op, ret>>,
                    old |-> IF uid \in DOMAIN users THEN <<users[uid]>> ELSE <<>>,
                    writes |-> S.writes,
                    oks |-> S.met]
    /\ UNCHANGED <<diskFaulty, dlgVars, tickVars, histVars, lost, tested>>

GetUser(u, oks) == Called("get_user", u, 0, 0, get_user(Store(oks), u))

UpdateUserLocation(u, lat, lon, oks) ==
    Called("update_user_location", u, <<lat, lon>>, 0,
           update_user_location(Store(oks), u, lat, lon))

AddSchedule(u, t, oks) ==
    LET r == add_schedule(Store(oks), u, t)
    IN Called("add_schedule", u, t, r.ret, r.S)

RemoveSchedule(u, t, oks) ==
    LET r == remove_schedule(Store(oks), u, t)
    IN Called("remove_schedule", u, t, r.ret, r.S)

ClearSchedules(u, oks) ==
    LET r == clear_schedules(Store(oks), u)
    IN Called("clear_schedules", u, 0, r.ret, r.S)

ResetUser(u, oks) == Called("reset_user", u, 0, 0, reset_user(Store(oks), u))

---------------------------------------------------------------------------
(* NotificationService *)

\* now.time().replace(second=0, microsecond=0) and now.date()
TimeOf(t) == t % MinutesPerDay
DateOf(t) == t \div MinutesPerDay

\* the key without its date
notification_key_no_date(user_id, current_date, schedule_time) ==
    <<user_id, 0, schedule_time>>

\* f"{user_id}_{current_date}_{schedule_time}": the three fields determine the
\* string and the string determines them
notification_key(user_id, current_date, schedule_time) ==
    <<user_id, current_date, schedule_time>>

\* WeatherService.validate_coordinates, on numbers
validate_coordinates(lat, lon) ==
    0 - 90 <= lat /\ lat <= 90 /\ 0 - 180 <= lon /\ lon <= 180

\* what the provider does with one request
ProviderOutcomes == {"ok", "error", "bad_forecast"}

\* get_weather_forecast that asks the provider whatever the coordinates are
get_weather_forecast_unvalidated(lat, lon, outcome) ==
    IF outcome = "error" THEN "none"
    ELSE IF outcome = "bad_forecast" THEN "weather_bad_date"
    ELSE "weather"

\* WeatherService.get_weather_forecast: "raise" when validate_coordinates raises
\* TypeError on None (outside the try), "none" for (None, None), else weather;
\* "weather_bad_date" is weather whose forecast date strptime cannot read
get_weather_forecast(lat, lon, outcome) ==
    IF lat = None \/ lon = None THEN "raise"
    ELSE IF ~validate_coordinates(lat[1], lon[1]) THEN "none"
    ELSE IF outcome = "error" THEN "none"
    ELSE IF outcome = "bad_forecast" THEN "weather_bad_date"
    ELSE "weather"

\* get_weather_forecast reaches requests.get: the coordinates passed
\* validate_coordinates; no lookup in weather_cache comes before the request
provider_request(lat, lon) ==
    /\ lat # None /\ lon # None
    /\ validate_coordinates(lat[1], lon[1])

\* WEATHER_CACHE_TTL, in minutes
WEATHER_CACHE_TTL == 10

\* a weather answer for these coordinates is on record and younger than the TTL
\* at minute t
Fresh(f, lat, lon, t) ==
    /\ f # None
    /\ f[1].lat = lat /\ f[1].lon = lon
    /\ t - f[1].at < WEATHER_CACHE_TTL

\* the record of the last answer, dropped once it is as old as the TTL
Expire(f, t) == IF f # None /\ t - f[1].at >= WEATHER_CACHE_TTL THEN None ELSE f

\* the `if not weather: return` left out (and nothing else stops the call)
send_notification_anyway(us, user_id, outcome) == "send"

\* NotificationService._send_notification up to bot.send_message: "send" when
\* it reaches the call, else the reason it returns without sending
send_notification(us, user_id, outcome) ==
    LET user == us[user_id]
        weather == get_weather_forecast(user.lat, user.lon, outcome)
    IN IF weather = "raise" THEN "coords_error"
       ELSE IF weather = "none" THEN "no_weather"
       ELSE IF weather = "weather_bad_date" THEN "build_error"
       ELSE "send"

\* the test left out: every key counts as not marked
NotSentAlways(sent, key) == TRUE

\* `notification_key not in self.storage.sent_notifications`
NotSent(sent, key) == key \notin sent

\* the object entry i of the tick's list sn holds, us being the registry
SnapUser(sn, us, i) == IF sn[i].obj = <<>> THEN us[sn[i].uid] ELSE sn[i].obj[1]

Bump(bag, k) == IF k \in DOMAIN bag THEN [bag EXCEPT ![k] = @ + 1] ELSE (k :> 1) @@ bag
Count(bag, k) == IF k \in DOMAIN bag THEN bag[k] ELSE 0

\* no key is dropped
cleanup_keeps_all(keys, current_date) == keys

\* the keys left by _cleanup_old_notifications: those that contain
\* str(current_date), current_date being datetime.now().date()
cleanup_old_notifications(keys, current_date) ==
    {key \in keys : key[2] = current_date}

\* datetime.now().date(): the date on the host's local clock
LocalDate(t) == DateOf(t + hostOffset)

\* the keys of the entries of the profiles us that are due at instant t: the
\* user has a location and the entry is the minute of t
DueKeys(us, t) ==
    {notification_key(u, DateOf(t), TimeOf(t)) :
        u \in {v \in DOMAIN us : us[v].has_location /\ InSeq(TimeOf(t), us[v].schedules)}}

\* the loops with `current_time >= schedule_time` for the test: an entry whose
\* minute has passed unmarked is taken up by a later tick
RECURSIVE NextDue_catches_up(_, _, _, _, _, _)
NextDue_catches_up(sn, us, sent, t, i, j) ==
    IF i > Len(sn) THEN <<Len(sn) + 1, 1>>
    ELSE LET user == SnapUser(sn, us, i)
         IN IF ~user.has_location \/ j > Len(user.schedules)
            THEN NextDue_catches_up(sn, us, sent, t, i + 1, 1)
            ELSE IF /\ TimeOf(t) >= user.schedules[j]
                    /\ NotSent(sent, notification_key(sn[i].uid, DateOf(t),
                                                      user.schedules[j]))
                 THEN <<i, j>>
                 ELSE NextDue_catches_up(sn, us, sent, t, i, j + 1)

\* The two nested loops of check_and_send_notifications from position (i, j)
\* on (entry i of the list, index j of that user's schedules, read as the list
\* is now), up to the first entry that is the captured minute t and whose key
\* is not marked: its position, or <<Len(sn) + 1, 1>> when the pass ends
\* first.  Nothing is written and the task is not suspended on the way.
\* (The code tests has_location once per user; the flag of a UserData object
\* is never cleared, reset_user makes a new object, so testing it at every
\* index gives the same.)
RECURSIVE NextDue(_, _, _, _, _, _)
NextDue(sn, us, sent, t, i, j) ==
    IF i > Len(sn) THEN <<Len(sn) + 1, 1>>
    ELSE LET user == SnapUser(sn, us, i)
         IN IF ~user.has_location \/ j > Len(user.schedules)
            THEN NextDue(sn, us, sent, t, i + 1, 1)
            ELSE IF /\ TimeOf(t) = user.schedules[j]
                    /\ NotSent(sent, notification_key(sn[i].uid, DateOf(t),
                                                      user.schedules[j]))
                 THEN <<i, j>>
                 ELSE NextDue(sn, us, sent, t, i, j + 1)

\* the error is not caught and ends the task
escapes == "dead"

\* where the loop goes on after _send_notification has caught and logged an
\* error: `except Exception as e: logger.error(...)`, then the call returns
caught == "scan"

\* the tick's list once the loop is at entry i: the objects of the entries
\* before i are not read again and are dropped
Passed(sn, i) ==
    [k \in 1..Len(sn) |-> IF k < i THEN [sn[k] EXCEPT !.obj = <<>>] ELSE sn[k]]

\* the keys the running tick has marked so far: a key holds the date and the
\* minute of the tick that made it, and no other tick captures that minute
Fired == {key \in sent_notifications : key[2] = DateOf(now) /\ key[3] = TimeOf(now)}

\* the purge may run wherever the loop is
PassEnd_early == pc = "scan"

\* the pass of the running tick is over and _cleanup_old_notifications is next
PassEnd == pc = "scan" /\ ui > Len(snap)

\* The loop wakes up: asyncio.sleep(60) has passed since the last tick ended,
\* so the clock shows a later minute t (the wall clock is not set back).  The
\* tick captures t, lists the registry and runs to its first due entry.  Every
\* key a tick makes holds the date and the minute it captured, so the keys of
\* this tick are new.  The first tick of a process (on_startup creates the
\* task, the loop reads the clock before it has slept) may capture the minute
\* the process before it captured last.
TickStart(t) ==
    /\ \/ pc = "sleep" /\ t > clock
       \/ pc = "boot" /\ t >= clock
    /\ clock' = t
    /\ now' = t
    /\ snap' = [i \in 1..Len(order) |-> [uid |-> order[i], obj |-> <<>>]]
    /\ expected' = DueKeys(users, t)
    /\ LET p == NextDue(snap', users, sent_notifications, t, 1, 1)
       IN ui' = p[1] /\ si' = p[2]
    /\ pc' = "scan"
    /\ sends' = <<>>
    /\ failed' = {}
    /\ fetched' = Expire(fetched, t)
    /\ provider_called' = FALSE
    /\ UNCHANGED <<regVars, dlgVars, lost, tested, sent_notifications, hostOffset, cur_key>>

\* the loop is at a due entry and calls _send_notification for it: the task is
\* suspended in bot.send_message, or the call returns early, the key is marked
\* and the loops run on to the next due entry
TickStep(outcome) ==
    /\ pc = "scan"
    /\ ui <= Len(snap)
    /\ LET user_id == snap[ui].uid
           schedule_time == SnapUser(snap, users, ui).schedules[si]
           key == notification_key(user_id, DateOf(now), schedule_time)
           weather == get_weather_forecast(users[user_id].lat, users[user_id].lon,
                                           outcome)
           r == send_notification(users, user_id, outcome)
       IN /\ failed' = IF weather \in {"raise", "none"} THEN failed \cup {key}
                                                        ELSE failed
          /\ provider_called' =
                provider_request(users[user_id].lat, users[user_id].lon)
          /\ fetched' = IF weather \in {"weather", "weather_bad_date"}
                        THEN Some([lat |-> users[user_id].lat,
                                   lon |-> users[user_id].lon, at |-> now])
                        ELSE fetched
          /\ IF r = "send"
             THEN /\ pc' = "send"
                  /\ cur_key' = key
                  /\ sends' = Bump(sends, key)
                  /\ UNCHANGED <<ui, si, snap, sent_notifications>>
             ELSE /\ sent_notifications' = sent_notifications \cup {key}
                  /\ LET p == NextDue(snap, users, sent_notifications', now,
                                      ui, si + 1)
                     IN ui' = p[1] /\ si' = p[2] /\ snap' = Passed(snap, p[1])
                  /\ pc' = caught
                  /\ UNCHANGED <<cur_key, sends>>
    /\ UNCHANGED <<regVars, dlgVars, lost, tested, clock, hostOffset, now, expected>>

\* bot.send_message returns (ok) or raises; _send_notification logs what is
\* raised, so either way the key is marked next and the loops run on
SendDone(ok) ==
    /\ pc = "send"
    /\ sent_notifications' = sent_notifications \cup {cur_key}
    /\ cur_key' = <<>>
    /\ LET p == NextDue(snap, users, sent_notifications', now, ui, si + 1)
       IN ui' = p[1] /\ si' = p[2] /\ snap' = Passed(snap, p[1])
    /\ pc' = IF ok THEN "scan" ELSE caught
    /\ UNCHANGED <<regVars, dlgVars, lost, tested, clock, hostOffset, now, sends, failed, expected,
                   fetched, provider_called>>

\* The pass is over: _cleanup_old_notifications, then asyncio.sleep(60).  The
\* clock is read again here, by datetime.now(): t is the time it shows, the
\* time the sends of the pass took having passed.
TickEnd(t) ==
    /\ PassEnd
    /\ t >= clock
    /\ clock' = t
    /\ sent_notifications' =
          cleanup_old_notifications(sent_notifications, LocalDate(t))
    /\ pc' = "sleep"
    /\ snap' = <<>>
    /\ ui' = 1
    /\ si' = 1
    /\ now' = 0
    /\ sends' = <<>>
    /\ failed' = {}
    /\ expected' = {}
    /\ fetched' = Expire(fetched, t)
    /\ provider_called' = FALSE
    /\ UNCHANGED <<regVars, dlgVars, lost, tested, hostOffset, cur_key>>

\* BotHandlers._send_weather_notification up to bot.send_message: "send" when
\* it reaches the call, else the reason it returns without sending (what is
\* raised is logged and swallowed)
send_weather_notification(us, user_id, outcome) ==
    LET user == us[user_id]
        weather == get_weather_forecast(user.lat, user.lon, outcome)
    IN IF ~user.has_location THEN "no_location"
       ELSE IF weather = "raise" THEN "coords_error"
       ELSE IF weather = "none" THEN "no_weather"
       ELSE IF weather = "weather_bad_date" THEN "build_error"
       ELSE "send"

NotTested == [result |-> "none", marked |-> FALSE]

\* a key of user u with the date of instant t is marked
MarkedOn(u, t) == \E key \in sent_notifications : key[1] = u /\ key[2] = DateOf(t)

\* what the test notification of user u did, S being the storage after the
\* handler's get_user
TestResult(S, u, outcome) ==
    [result |-> IF ~S.users[u].has_location THEN "need_location"
                ELSE IF send_weather_notification(S.users, u, outcome) = "send"
                THEN "sent" ELSE "not_sent",
     marked |-> MarkedOn(u, clock)]

\* a test notification that marks the key of the current minute as sent
SendTestNotification_marks(u, text, oks, outcome) ==
    /\ Handled(u, text, "send_test_notification")
    /\ LET S == get_user(Store(oks), u)
       IN /\ Commit(S)
          /\ tested' = [tested EXCEPT ![u] = TestResult(S, u, outcome)]
          /\ sent_notifications' =
                IF S.users[u].has_location
                THEN sent_notifications
                        \cup {notification_key(u, DateOf(clock), TimeOf(clock))}
                ELSE sent_notifications
    /\ UNCHANGED <<dlgVars, clock, hostOffset, pc, now, snap, ui, si, cur_key,
                   histVars, lost>>

\* BotHandlers.send_test_notification: without a location the user is asked
\* to set one; else _send_weather_notification runs and the user is told the
\* test was sent, whatever _send_weather_notification did.  No reply carries
\* a reply_markup, so the keyboard the user has stays.
SendTestNotification(u, text, oks, outcome) ==
    /\ Handled(u, text, "send_test_notification")
    /\ LET S == get_user(Store(oks), u)
       IN /\ Commit(S)
          /\ tested' = [tested EXCEPT ![u] = TestResult(S, u, outcome)]
    /\ UNCHANGED <<dlgVars, tickVars, histVars, lost>>

\* a new process that finds the marks of the process before it
Restart_keeps_marks ==
    /\ LET loaded == load_data(disk)
       IN  users' = loaded.users /\ order' = loaded.order
    /\ lost' = lost \cup sent_notifications
    /\ lastCall' = NoCall
    /\ conv' = [u \in Uids |-> END]
    /\ user_data' = [u \in Uids |-> NoUserData]
    /\ pc' = "boot"
    /\ now' = 0
    /\ snap' = <<>>
    /\ ui' = 1
    /\ si' = 1
    /\ cur_key' = <<>>
    /\ sends' = <<>>
    /\ failed' = {}
    /\ expected' = {}
    /\ fetched' = None
    /\ provider_called' = FALSE
    /\ UNCHANGED <<disk, diskFaulty, prompt, menu, clock, hostOffset, sent_notifications,
                   tested>>

\* The process ends, wherever it is, and main runs again: DataStorage() starts
\* with users, weather_cache and sent_notifications empty and _load_data fills
\* users from the file; the ConversationHandler (built without persistence) and
\* context.user_data start empty; on_startup creates the loop's task.  What
\* the users have on their screens stays, and so do the file and the clock.
Restart ==
    /\ LET loaded == load_data(disk)
       IN  users' = loaded.users /\ order' = loaded.order
    /\ sent_notifications' = {}
    /\ lost' = lost \cup sent_notifications
    /\ lastCall' = NoCall
    /\ conv' = [u \in Uids |-> END]
    /\ user_data' = [u \in Uids |-> NoUserData]
    /\ pc' = "boot"
    /\ now' = 0
    /\ snap' = <<>>
    /\ ui' = 1
    /\ si' = 1
    /\ cur_key' = <<>>
    /\ sends' = <<>>
    /\ failed' = {}
    /\ expected' = {}
    /\ fetched' = None
    /\ provider_called' = FALSE
    /\ UNCHANGED <<disk, diskFaulty, prompt, menu, clock, hostOffset, tested>>

---------------------------------------------------------------------------
(* Specifications *)

\* the state after DataStorage() found no data file and main built the bot
InitCommon ==
    /\ users = <<>>
    /\ order = <<>>
    /\ disk = None
    /\ lastCall = NoCall
    /\ conv = [u \in Uids |-> END]
    /\ user_data = [u \in Uids |-> NoUserData]
    /\ prompt = [u \in Uids |-> "none"]
    /\ menu = [u \in Uids |-> <<>>]
    /\ sent_notifications = {}
    /\ clock = 0
    /\ pc = "sleep"
    /\ now = 0
    /\ snap = <<>>
    /\ ui = 1
    /\ si = 1
    /\ cur_key = <<>>
    /\ sends = <<>>
    /\ failed = {}
    /\ expected = {}
    /\ fetched = None
    /\ provider_called = FALSE
    /\ lost = {}
    /\ tested = [u \in Uids |-> NotTested]

Init ==
    /\ InitCommon
    /\ diskFaulty = FALSE
    /\ hostOffset \in HostOffsets

\* One user and the scheduler: the texts and callbacks the user sends, and the
\* minutes at which the loop wakes up
SchedUids == {1}
SchedTexts == {SetupText, TimeText(4, 0), TimeText(9, 0), ResetText}
SchedCallbacks == {<<"del_all", 0>>, <<"del", 0>>}
SchedInstants == Instants({T(4, 0), T(4, 1), T(9, 0)})

Next ==
    \/ \E t \in SchedInstants : TickStart(t)
    \/ \E outcome \in ProviderOutcomes : TickStep(outcome)
    \/ \E ok \in BOOLEAN : SendDone(ok)
    \/ \E t \in SchedInstants \cup {clock} : TickEnd(t)
    \/ \E u \in SchedUids, oks \in SaveOutcomes : HandleLocation(u, 55, 37, oks)
    \/ \E u \in SchedUids, text \in SchedTexts, oks \in SaveOutcomes :
          SetupNotifications(u, text, oks)
    \/ \E u \in SchedUids, text \in SchedTexts, oks \in SaveOutcomes :
          SaveNotificationTime(u, text, oks)
    \/ \E u \in SchedUids, text \in SchedTexts, oks \in SaveOutcomes :
          ResetData(u, text, oks)
    \/ \E u \in SchedUids, data \in SchedCallbacks, oks \in SaveOutcomes :
          HandleDeleteCallback(u, data, oks)

Spec == Init /\ [][Next]_vars

\* Two users and the scheduler: every tick is at 09:00 UTC, and 09:00 is the
\* one time the users set
PairTexts == {SetupText, TimeText(9, 0)}
PairCallbacks == {<<"del_all", 0>>}
PairInstants == Instants({T(9, 0)})

NextPair ==
    \/ \E t \in PairInstants : TickStart(t)
    \/ \E outcome \in ProviderOutcomes : TickStep(outcome)
    \/ \E ok \in BOOLEAN : SendDone(ok)
    \/ \E t \in PairInstants \cup {clock} : TickEnd(t)
    \/ \E u \in Uids, oks \in SaveOutcomes : HandleLocation(u, 55, 37, oks)
    \/ \E u \in Uids, text \in PairTexts, oks \in SaveOutcomes :
          SetupNotifications(u, text, oks)
    \/ \E u \in Uids, text \in PairTexts, oks \in SaveOutcomes :
          SaveNotificationTime(u, text, oks)
    \/ \E u \in Uids, data \in PairCallbacks, oks \in SaveOutcomes :
          HandleDeleteCallback(u, data, oks)

SpecPair == Init /\ [][NextPair]_vars

\* The registry of one user by its methods, with the handlers that list and
\* delete entries
ApiUids == {1}
ApiTimes == {T(0, 0), T(9, 15), T(9, 30), T(23, 45)}
ApiTexts == {ShowText, DeleteText}
ApiLocations == {<<55, 37>>, <<91, 37>>}
ApiCallbacks == {<<"del_cancel", 0>>, <<"del_all", 0>>} \cup {<<"del", i>> : i \in 0..4}

InitApi ==
    /\ InitCommon
    /\ diskFaulty = FALSE
    /\ hostOffset = 0

NextApi ==
    \/ \E u \in ApiUids, oks \in SaveOutcomes : GetUser(u, oks)
    \/ \E u \in ApiUids, l \in ApiLocations, oks \in SaveOutcomes :
          UpdateUserLocation(u, l[1], l[2], oks)
    \/ \E u \in ApiUids, t \in ApiTimes, oks \in SaveOutcomes : AddSchedule(u, t, oks)
    \/ \E u \in ApiUids, t \in ApiTimes, oks \in SaveOutcomes :
          RemoveSchedule(u, t, oks)
    \/ \E u \in ApiUids, oks \in SaveOutcomes : ClearSchedules(u, oks)
    \/ \E u \in ApiUids, oks \in SaveOutcomes : ResetUser(u, oks)
    \/ \E u \in ApiUids, text \in ApiTexts, oks \in SaveOutcomes :
          ShowNotifications(u, text, oks)
    \/ \E u \in ApiUids, text \in ApiTexts, oks \in SaveOutcomes :
          DeleteNotifications(u, text, oks)
    \/ \E u \in ApiUids, data \in ApiCallbacks, oks \in SaveOutcomes :
          HandleDeleteCallback(u, data, oks)

SpecApi == InitApi /\ [][NextApi]_vars

\* The registry of one user by its methods, on a disk where a save may fail
FaultyUids == {1}
FaultyTimes == {T(9, 15), T(9, 30)}

InitFaulty ==
    /\ InitCommon
    /\ diskFaulty = TRUE
    /\ hostOffset = 0

NextFaulty ==
    \/ \E u \in FaultyUids, oks \in SaveOutcomes : GetUser(u, oks)
    \/ \E u \in FaultyUids, oks \in SaveOutcomes : UpdateUserLocation(u, 55, 37, oks)
    \/ \E u \in FaultyUids, t \in FaultyTimes, oks \in SaveOutcomes :
          AddSchedule(u, t, oks)
    \/ \E u \in FaultyUids, t \in FaultyTimes, oks \in SaveOutcomes :
          RemoveSchedule(u, t, oks)
    \/ \E u \in FaultyUids, oks \in SaveOutcomes : ClearSchedules(u, oks)
    \/ \E u \in FaultyUids, oks \in SaveOutcomes : ResetUser(u, oks)

SpecFaulty == InitFaulty /\ [][NextFaulty]_vars

\* The registry of two users by its methods, with the reset button
RegUids == Uids
RegTimes == {T(9, 15), T(9, 30)}

NextReg ==
    \/ \E u \in RegUids, oks \in SaveOutcomes : GetUser(u, oks)
    \/ \E u \in RegUids, oks \in SaveOutcomes : UpdateUserLocation(u, 55, 37, oks)
    \/ \E u \in RegUids, t \in RegTimes, oks \in SaveOutcomes : AddSchedule(u, t, oks)
    \/ \E u \in RegUids, oks \in SaveOutcomes : ClearSchedules(u, oks)
    \/ \E u \in RegUids, oks \in SaveOutcomes : ResetUser(u, oks)
    \/ \E u \in RegUids, oks \in SaveOutcomes : ResetData(u, ResetText, oks)

SpecReg == InitApi /\ [][NextReg]_vars

\* The conversation: one user and every handler of texts, no scheduler tick
DialogUids == {1}
DialogTexts ==
    {SetupText, CancelBtn, BackBtn, YesMore, NoFinish, CancelCmd, StartCmd,
     OtherText, ResetText, ShowText, DeleteText, BandText(0), BandText(3),
     TimeText(9, 0), TimeText(9, 20), BareTimeText(9, 0)}

\* the handler that takes the text runs
Update(u, text, oks) ==
    \/ Start(u, text, oks)
    \/ Cancel(u, text, oks)
    \/ ShowNotifications(u, text, oks)
    \/ DeleteNotifications(u, text, oks)
    \/ ResetData(u, text, oks)
    \/ SetupNotifications(u, text, oks)
    \/ HandleTimeRange(u, text, oks)
    \/ HandleContinueChoice(u, text, oks)
    \/ SaveNotificationTime(u, text, oks)
    \/ HandleUnknown(u, text, oks)

NextDialog ==
    \/ \E u \in DialogUids, text \in DialogTexts, oks \in SaveOutcomes :
          Update(u, text, oks)
    \/ \E u \in DialogUids, oks \in SaveOutcomes : HandleLocation(u, 55, 37, oks)

SpecDialog == InitApi /\ [][NextDialog]_vars

\* One user, the scheduler and the restarts of the process: the ticks are at
\* 09:00 and 09:01 UTC, and 09:00 is the one time the user sets
RestartUids == {1}
RestartTexts == {SetupText, TimeText(9, 0)}
RestartInstants == Instants({T(9, 0), T(9, 1)})

NextRestart ==
    \/ \E t \in RestartInstants : TickStart(t)
    \/ \E outcome \in ProviderOutcomes : TickStep(outcome)
    \/ \E ok \in BOOLEAN : SendDone(ok)
    \/ \E t \in RestartInstants \cup {clock} : TickEnd(t)
    \/ \E u \in RestartUids, oks \in SaveOutcomes : HandleLocation(u, 55, 37, oks)
    \/ \E u \in RestartUids, text \in RestartTexts, oks \in SaveOutcomes :
          SetupNotifications(u, text, oks)
    \/ \E u \in RestartUids, text \in RestartTexts, oks \in SaveOutcomes :
          SaveNotificationTime(u, text, oks)
    \/ Restart

SpecRestart == Init /\ [][NextRestart]_vars

\* Two users, the scheduler and the reset button: every tick is at 09:00 UTC,
\* and 09:00 is the one time the users set
ResetTexts == {SetupText, TimeText(9, 0), ResetText}
ResetInstants == Instants({T(9, 0)})

NextReset ==
    \/ \E t \in ResetInstants : TickStart(t)
    \/ \E outcome \in ProviderOutcomes : TickStep(outcome)
    \/ \E ok \in BOOLEAN : SendDone(ok)
    \/ \E t \in ResetInstants \cup {clock} : TickEnd(t)
    \/ \E u \in Uids, oks \in SaveOutcomes : HandleLocation(u, 55, 37, oks)
    \/ \E u \in Uids, text \in ResetTexts, oks \in SaveOutcomes :
          SetupNotifications(u, text, oks)
    \/ \E u \in Uids, text \in ResetTexts, oks \in SaveOutcomes :
          SaveNotificationTime(u, text, oks)
    \/ \E u \in Uids, text \in ResetTexts, oks \in SaveOutcomes :
          ResetData(u, text, oks)

SpecReset == Init /\ [][NextReset]_vars

\* One user, the scheduler and the test button: the ticks are at 09:00 and
\* 09:01 UTC, and 09:00 is the one time the user sets
TestUids == {1}
TestTexts == {SetupText, TimeText(9, 0), TestText}
TestInstants == Instants({T(9, 0), T(9, 1)})

NextTest ==
    \/ \E t \in TestInstants : TickStart(t)
    \/ \E outcome \in ProviderOutcomes : TickStep(outcome)
    \/ \E ok \in BOOLEAN : SendDone(ok)
    \/ \E t \in TestInstants \cup {clock} : TickEnd(t)
    \/ \E u \in TestUids, oks \in SaveOutcomes : HandleLocation(u, 55, 37, oks)
    \/ \E u \in TestUids, text \in TestTexts, oks \in SaveOutcomes :
          SetupNotifications(u, text, oks)
    \/ \E u \in TestUids, text \in TestTexts, oks \in SaveOutcomes :
          SaveNotificationTime(u, text, oks)
    \/ \E u \in TestUids, text \in TestTexts, oks \in SaveOutcomes,
          outcome \in ProviderOutcomes :
          SendTestNotification(u, text, oks, outcome)

SpecTest == Init /\ [][NextTest]_vars

\* The loop is a task of the event loop: it runs whenever it is not suspended,
\* bot.send_message returns or raises in the end, and asyncio.sleep(60) ends.
LastInstant == MaxDay * MinutesPerDay + T(9, 0)

LoopFairness ==
    /\ WF_vars(\E t \in PairInstants : TickStart(t))
    /\ WF_vars(\E outcome \in ProviderOutcomes : TickStep(outcome))
    /\ WF_vars(\E ok \in BOOLEAN : SendDone(ok))
    /\ WF_vars(\E t \in PairInstants \cup {clock} : TickEnd(t))

SpecPairFair == SpecPair /\ LoopFairness

---------------------------------------------------------------------------
(* Delivery *)

\* C1: at most one scheduled notification is dispatched for a (user id,
\* calendar date, trigger time): no key is handed to bot.send_message twice.
\* A key holds the date and minute its tick captured and each tick captures a
\* later minute, so the dispatches of one tick are all the dispatches of its keys.
C1_AtMostOnce == \A key \in DOMAIN sends : sends[key] = 1

\* the loop is suspended in the send for the entry at index 1, and the user has
\* since put an earlier time in front of it: the sent entry is at index 2 now
\* and the loop comes to it again
C1_Witness ==
    /\ pc = "send"
    /\ si = 1
    /\ snap[ui].obj = <<>>
    /\ Len(users[snap[ui].uid].schedules) = 2
    /\ users[snap[ui].uid].schedules[2] = cur_key[3]

C3_Purge ==
    pc = "sleep" => \A key \in sent_notifications : key[2] = LocalDate(clock)

\* the purge of a tick of the second day is done and has left a key
C3_Witness ==
    /\ pc = "sleep"
    /\ DateOf(clock) = 1
    /\ sent_notifications # {}

\* C4: a key whose weather fetch failed is not dispatched in that tick; it is
\* marked, so the tick does not come back to it, and a later tick of that date
\* captures another minute
C4_FailedDropped ==
    /\ failed \cap DOMAIN sends = {}
    /\ pc = "scan" => failed \subseteq sent_notifications

\* the pass of a tick in which a fetch failed is over
C4_Witness == PassEnd /\ failed # {}

\* C5: no error of a fetch, a message build or a send ends the loop.  Every
\* tick comes to its sleep, after the sleep another tick starts (as long as
\* the modelled days last), and a tick in which every due entry ended in an
\* error before its send has still marked every due entry.
C5_LoopGoesOn ==
    /\ [](pc # "sleep" => <>(pc = "sleep"))
    /\ []((pc = "sleep" /\ clock < LastInstant) => <>(pc # "sleep"))
    /\ []((PassEnd /\ DOMAIN sends = {}) => Fired = expected)

\* the first user's fetch failed and the loop has gone on to the second user,
\* whose message is being sent
C5_Witness ==
    /\ pc = "send"
    /\ ui = 2
    /\ failed # {}
    /\ Cardinality(expected) = 2

\* C6: the set of keys fired in a tick is the set computed from the profiles
\* as they were when the tick listed them
C6_SnapshotIsolation == PassEnd => Fired = expected

---------------------------------------------------------------------------
(* Registry and dialog *)

\* C7: every user's list of trigger times is strictly ascending
C7_StrictlyAscending ==
    \A u \in DOMAIN users :
        \A i \in 1..(Len(users[u].schedules) - 1) :
            users[u].schedules[i] < users[u].schedules[i + 1]

\* remove_schedule has taken an entry out of a list and two or more are left
C7_Witness ==
    /\ lastCall.op = "remove_schedule"
    /\ lastCall.ret[2] = TRUE
    /\ Len(users[lastCall.uid].schedules) >= 2

\* C8: adding a time twice gives the registry that adding it once gives, and
\* adding to the empty list gives the list of that one time
C8_AddIdempotent ==
    \A u \in ApiUids, t \in ApiTimes :
        LET once == add_schedule(Store(<<"ok", "ok">>), u, t).S
            twice == add_schedule([once EXCEPT !.oks = <<"ok", "ok">>], u, t).S
        IN /\ twice.users = once.users
           /\ twice.order = once.order
           /\ (u \notin DOMAIN users \/ users[u].schedules = <<>>)
                 => once.users[u].schedules = <<t>>

\* a time was added to the empty list and then added again: one entry
C8_Witness ==
    /\ lastCall.op = "add_schedule"
    /\ lastCall.ret[2] = FALSE
    /\ users[lastCall.uid].schedules = <<lastCall.arg[2]>>

\* C9: add_schedule returns False exactly when the time is in the user's list,
\* and then the profile is as it was and nothing is written; else it returns
\* True, the list holds the old entries and the time, and the rest of the
\* profile is as it was
C9_AddContract ==
    lastCall.op = "add_schedule" =>
        LET old == IF lastCall.old = <<>> THEN UserData(lastCall.uid)
                   ELSE lastCall.old[1]
            new == users[lastCall.uid]
            Entries(l) == {l[i] : i \in 1..Len(l)}
        IN /\ lastCall.ret[2] = FALSE <=> InSeq(lastCall.arg[2], old.schedules)
           /\ lastCall.ret[2] = FALSE =>
                 /\ lastCall.old = <<new>>
                 /\ lastCall.writes = 0
           /\ lastCall.ret[2] = TRUE =>
                 /\ Entries(new.schedules) = Entries(old.schedules) \cup {lastCall.arg[2]}
                 /\ Len(new.schedules) = Len(old.schedules) + 1
                 /\ [new EXCEPT !.schedules = <<>>] = [old EXCEPT !.schedules = <<>>]

\* add_schedule was called with a time of a list of three and returned False
C9_Witness ==
    /\ lastCall.op = "add_schedule"
    /\ lastCall.ret[2] = FALSE
    /\ Len(users[lastCall.uid].schedules) = 3

\* C10: a cancel input, the cancel button's text or /cancel, sent while the
\* dialog is active ends the dialog and leaves the registry as it was
C10_CancelEndsDialog ==
    [][\A u \in DialogUids :
          (/\ conv[u] = SETTING_TIME
           /\ \E text \in {CancelBtn, CancelCmd}, oks \in SaveOutcomes :
                  Update(u, text, oks))
          => (conv'[u] = END /\ users' = users)]_vars

\* C11: every stored trigger time has its minute on the quarter-hour grid (a
\* time pick off the grid leaves the list as it was)
C11_MinuteGrid ==
    \A u \in DOMAIN users :
        \A i \in 1..Len(users[u].schedules) :
            users[u].schedules[i] % 60 \in {0, 15, 30, 45}

\* the hour of a time lies in the band chosen by the last range selection
InBand(selected_range, t) ==
    /\ selected_range # <<>>
    /\ selected_range[1] <= t \div 60
    /\ t \div 60 <= selected_range[2]

\* C12: a time pick whose hour is outside the chosen band, or that comes when
\* no band is chosen, leaves the registry as it was and shows the ranges again
C12_BandConstraint ==
    [][\A u \in DialogUids, text \in DialogTexts :
          (/\ ParseTime(text) # <<>>
           /\ ~InBand(user_data[u].selected_range, ParseTime(text)[1])
           /\ \E oks \in SaveOutcomes : SaveNotificationTime(u, text, oks))
          => (users' = users /\ prompt'[u] = "ranges")]_vars

\* the user has no location on file (an unknown user gets the default profile)
NoLocation(u) == u \notin DOMAIN users \/ ~users[u].has_location

\* the trigger list of a user, empty for an unknown user
SchedulesOf(us, u) == IF u \in DOMAIN us THEN us[u].schedules ELSE <<>>

\* C13: the setup command of a user without a location leaves the dialog idle,
\* stores no band list or choice and leaves the user's trigger list as it was
C13_NoLocationNoDialog ==
    [][\A u \in DialogUids :
          (/\ NoLocation(u)
           /\ \E oks \in SaveOutcomes : SetupNotifications(u, SetupText, oks))
          => (/\ conv[u] = END /\ conv'[u] = END
              /\ user_data'[u] = user_data[u]
              /\ SchedulesOf(users', u) = SchedulesOf(users, u))]_vars

\* the setup command was refused for want of a location and nothing was stored
C13_Witness ==
    /\ prompt[1] = "need_location"
    /\ conv[1] = END
    /\ user_data[1] = NoUserData
    /\ 1 \in DOMAIN users /\ ~users[1].has_location

\* C14: a weather request of a pass for coordinates whose last answer is
\* younger than the TTL does not go to the provider.  The requests of one pass
\* are stamped with the minute of the pass; a pass lasts less than the TTL, the
\* provider request timing out after 10 seconds.
C14_FreshEntryServed ==
    [][\A outcome \in ProviderOutcomes :
          (/\ TickStep(outcome)
           /\ Fresh(fetched, users[snap[ui].uid].lat, users[snap[ui].uid].lon, now))
          => ~provider_called']_vars

\* C15: a profile with has_location set holds a latitude in [-90, 90] and a
\* longitude in [-180, 180] (a location out of range is refused and leaves the
\* profile as it was)
C15_LocationInRange ==
    \A u \in DOMAIN users :
        users[u].has_location
            => validate_coordinates(users[u].lat[1], users[u].lon[1])

\* C16: with saves that succeed, after every operation the data file holds the
\* registry as it is in memory (and no file exists while the registry is empty)
C16_WriteThrough ==
    IF users = <<>>
    THEN disk = None
    ELSE disk = Some(data_to_save(users, order))

\* remove_schedule has taken an entry out, others remain, and the file holds
\* the shortened list
C16_Witness ==
    /\ lastCall.op = "remove_schedule"
    /\ lastCall.ret[2] = TRUE
    /\ users[1].schedules # <<>>
    /\ disk = Some(data_to_save(users, order))

\* what the call recorded in c gives from the present state when every save
\* succeeds: [S, ret]
NormalCall(c) ==
    LET S == Store(<<"ok", "ok">>)
    IN CASE c.op = "get_user" -> [S |-> get_user(S, c.uid), ret |-> 0]
         [] c.op = "update_user_location" ->
                [S |-> update_user_location(S, c.uid, c.arg[2][1], c.arg[2][2]), ret |-> 0]
         [] c.op = "add_schedule" -> add_schedule(S, c.uid, c.arg[2])
         [] c.op = "remove_schedule" -> remove_schedule(S, c.uid, c.arg[2])
         [] c.op = "clear_schedules" -> clear_schedules(S, c.uid)
         [] c.op = "reset_user" -> [S |-> reset_user(S, c.uid), ret |-> 0]

\* the call of this step returned what it returns when saves succeed, made as
\* many saves, and left the registry it leaves then
Swallowed ==
    LET n == NormalCall(lastCall')
    IN /\ users' = n.S.users
       /\ order' = n.S.order
       /\ lastCall'.ret[2] = n.ret
       /\ lastCall'.writes = n.S.writes

\* the file as it was when the last save of this step's call began: the save
\* of a profile that get_user created comes before it
BeforeLastSave ==
    IF lastCall'.op \in {"get_user", "reset_user"}
    THEN disk
    ELSE get_user(Store(lastCall'.oks), lastCall'.uid).disk

\* what the last save of this step's call met
LastSave == lastCall'.oks[lastCall'.writes]

\* C17 as stated: a failing save is swallowed, the mutation is kept, and the
\* file stays as it was before the failing save; a save that succeeds makes
\* the file equal to the registry
C17_PreviousValueKept ==
    [][lastCall'.op # "none"
         => /\ Swallowed
            /\ lastCall'.writes = 0 => disk' = disk
            /\ lastCall'.writes > 0 =>
                  IF LastSave = "ok"
                  THEN disk' = Some(data_to_save(users', order'))
                  ELSE disk' = BeforeLastSave]_vars

\* C17, amended: a failing save is swallowed and the mutation is kept; the file
\* is then as it was before the failing save, or unfinished when the save
\* failed after opening it; a save that succeeds makes the file equal to the
\* registry
C17_SwallowedSave ==
    [][lastCall'.op # "none"
         => /\ Swallowed
            /\ lastCall'.writes = 0 => disk' = disk
            /\ lastCall'.writes > 0 =>
                  CASE LastSave = "ok" -> disk' = Some(data_to_save(users', order'))
                    [] LastSave = "fail" -> disk' = BeforeLastSave
                    [] LastSave = "torn" -> disk' = Torn]_vars

\* add_schedule added a time and returned True while its save left the file
\* unfinished
C17_Witness ==
    /\ lastCall.op = "add_schedule"
    /\ lastCall.ret[2] = TRUE
    /\ lastCall.oks = <<"torn">>
    /\ users[1].schedules # <<>>
    /\ disk = Torn

\* C18: a reset of user u, by reset_user or by the reset button, leaves u with
\* the default profile whatever it was, and every other profile as it was
C18_ResetToDefault ==
    [][\A u \in RegUids :
          (\/ lastCall'.op = "reset_user" /\ lastCall'.uid = u
           \/ /\ lastCall'.op = "none"
              /\ \E oks \in SaveOutcomes : ResetData(u, ResetText, oks))
          => /\ DOMAIN users' = DOMAIN users \cup {u}
             /\ users'[u] = UserData(u)
             /\ \A v \in DOMAIN users \ {u} : users'[v] = users[v]]_vars

\* reset_user has reset a profile that had a location and triggers while the
\* other user has both
C18_Witness ==
    /\ lastCall.op = "reset_user"
    /\ lastCall.old # <<>>
    /\ lastCall.old[1].has_location
    /\ lastCall.old[1].schedules # <<>>
    /\ users[lastCall.uid] = UserData(lastCall.uid)
    /\ \E v \in DOMAIN users \ {lastCall.uid} :
          users[v].has_location /\ users[v].schedules # <<>>

\* C19: no step takes a user id out of the registry
C19_NeverDeleted == [][DOMAIN users \subseteq DOMAIN users']_vars

\* both users are in the registry after a reset of one that was in it
C19_Witness ==
    /\ lastCall.op = "reset_user"
    /\ lastCall.old # <<>>
    /\ DOMAIN users = RegUids

\* C20: get_user of an absent id adds the default profile and saves once;
\* get_user of a present id leaves the registry and the file as they were and
\* does not save
C20_GetUser ==
    [][\A u \in RegUids :
          (lastCall'.op = "get_user" /\ lastCall'.uid = u)
          => IF u \notin DOMAIN users
             THEN /\ users' = (u :> UserData(u)) @@ users
                  /\ lastCall'.writes = 1
                  /\ disk' = Some(data_to_save(users', order'))
             ELSE /\ users' = users /\ order' = order /\ disk' = disk
                  /\ lastCall'.writes = 0]_vars

\* get_user has created a profile beside one that has triggers, and saved
C20_Witness ==
    /\ lastCall.op = "get_user"
    /\ lastCall.old = <<>>
    /\ lastCall.writes = 1
    /\ users[lastCall.uid] = UserData(lastCall.uid)
    /\ \E v \in DOMAIN users \ {lastCall.uid} : users[v].schedules # <<>>

\* user u is in the dialog and the keyboard named pr is the one last shown
InSubState(u, pr) == conv[u] = SETTING_TIME /\ prompt[u] = pr

\* C21: at the continue prompt the text of the add-another button brings the
\* range selection back, every other text ends the dialog, and neither changes
\* the user's trigger list
C21_ContinuePrompt ==
    [][\A u \in DialogUids, text \in DialogTexts :
          (/\ InSubState(u, "continue")
           /\ \E oks \in SaveOutcomes : Update(u, text, oks))
          => /\ IF text = YesMore
                THEN conv'[u] = SETTING_TIME /\ prompt'[u] = "ranges"
                ELSE conv'[u] = END
             /\ SchedulesOf(users', u) = SchedulesOf(users, u)]_vars

\* the labels of the six bands, and the two cancel inputs
BandLabels == {HourRanges[i].text : i \in 1..Len(HourRanges)}
CancelInputs == {CancelBtn, CancelCmd}

\* C22: in range selection a text that is no band label and no cancel input
\* leaves the dialog in range selection and the user's trigger list as it was
C22_RangeReprompt ==
    [][\A u \in DialogUids, text \in DialogTexts \ (BandLabels \cup CancelInputs) :
          (/\ InSubState(u, "ranges")
           /\ \E oks \in SaveOutcomes : Update(u, text, oks))
          => /\ conv'[u] = SETTING_TIME /\ prompt'[u] = "ranges"
             /\ SchedulesOf(users', u) = SchedulesOf(users, u)]_vars

\* the texts that reach the handlers of the dialog and are none of its
\* expected inputs: no band label, no time, not back, not cancel, no continue
\* choice
Unexpected ==
    {text \in DialogTexts :
        /\ Route(SETTING_TIME, text) \in {"handle_time_range", "save_notification_time"}
        /\ text \notin BandLabels \cup {BackBtn, CancelBtn}
        /\ ParseTime(text) = <<>>}

C24_PickLeadsToContinue ==
    [][\A u \in DialogUids, text \in DialogTexts :
          (/\ ParseTime(text) # <<>>
           /\ \E oks \in SaveOutcomes : SaveNotificationTime(u, text, oks))
          => /\ users' = add_schedule(Store(<<"ok", "ok">>), u, ParseTime(text)[1]).S.users
             /\ conv'[u] = SETTING_TIME
             /\ prompt'[u] = "continue"
             /\ user_data'[u] = user_data[u]]_vars

\* the continue prompt is shown after two picks
C24_Witness ==
    /\ conv[1] = SETTING_TIME
    /\ prompt[1] = "continue"
    /\ user_data[1].selected_range # <<>>
    /\ Len(users[1].schedules) = 2

\* C25: the setup text sent while the dialog is active puts the dialog in
\* range selection with the band list stored anew, the user's trigger list
\* being as it was
C25_SetupSupersedes ==
    [][\A u \in DialogUids :
          (/\ conv[u] = SETTING_TIME
           /\ \E oks \in SaveOutcomes : Update(u, SetupText, oks))
          => /\ conv'[u] = SETTING_TIME
             /\ prompt'[u] = "ranges"
             /\ user_data'[u].hour_ranges = HourRanges
             /\ SchedulesOf(users', u) = SchedulesOf(users, u)]_vars

\* C26: when the loop calls bot.send_message for a user, the profile the tick
\* holds for that user and the user's profile in the registry have a location,
\* the entry the loop is at is the minute the tick captured, and the key made
\* for it holds the tick's date and that minute; so no tick sends for a minute
\* or a date other than the one it captured
C26_NoSpuriousNoCatchUp ==
    [][(pc = "scan" /\ pc' = "send")
         => LET u == snap[ui].uid
                user == SnapUser(snap, users, ui)
            IN /\ users[u].has_location
               /\ user.has_location
               /\ si <= Len(user.schedules)
               /\ user.schedules[si] = TimeOf(now)
               /\ cur_key' = <<u, DateOf(now), TimeOf(now)>>]_vars

\* the pass of 04:01 is over: the user has a location and the entry 04:00,
\* which no tick of the day has marked, and the pass has sent nothing
C26_Witness ==
    /\ PassEnd
    /\ TimeOf(now) = T(4, 1)
    /\ 1 \in DOMAIN users
    /\ users[1].has_location
    /\ InSeq(T(4, 0), users[1].schedules)
    /\ <<1, DateOf(now), T(4, 0)>> \notin sent_notifications
    /\ sends = <<>>

\* C27: the purge that ends a tick on the UTC date the tick captured keeps the
\* keys the tick has marked
C27_PurgeKeepsFired ==
    [][(PassEnd /\ pc' = "sleep" /\ DateOf(clock') = DateOf(now))
         => Fired \subseteq sent_notifications']_vars

\* C28: the step that ends a tick is taken with the loops past the last entry
\* of the tick's list, and it is the one purge of the tick; no other step takes
\* a key out; a key is marked by the step that ends its send, the send having
\* begun before, or by the step whose attempt ended without a send
C28_TickOrdering ==
    /\ [][(pc # "sleep" /\ pc' = "sleep")
            => /\ pc = "scan" /\ ui > Len(snap)
               /\ sent_notifications' =
                     cleanup_old_notifications(sent_notifications, LocalDate(clock'))]_vars
    /\ [][~(sent_notifications \subseteq sent_notifications')
            => (pc = "scan" /\ ui > Len(snap) /\ pc' = "sleep")]_vars
    /\ [][\A key \in sent_notifications' \ sent_notifications :
             \/ pc = "send" /\ key = cur_key /\ Count(sends, key) >= 1
             \/ /\ pc = "scan" /\ pc' = "scan" /\ ui <= Len(snap)
                /\ key = <<snap[ui].uid, DateOf(now), TimeOf(now)>>
                /\ sends' = sends]_vars

\* the tick that sent for 09:00 and marked the key has made its purge
C28_Witness ==
    /\ pc = "sleep"
    /\ TimeOf(clock) = T(9, 0)
    /\ <<1, DateOf(clock), T(9, 0)>> \in sent_notifications

\* C29: sent_notifications is not saved.  When the process starts again the
\* tracker is empty while the registry is the one that was saved, here the
\* registry the process had; and when the first tick of the new process
\* captures the date and minute of a key the tracker held before, for a user
\* who has a location and that schedule, the key is due and unmarked again and
\* the pass stops at a due entry to send it
C29_RestartForgetsMarks ==
    /\ [][pc' = "boot" =>
            /\ sent_notifications' = {}
            /\ users' = users
            /\ order' = order
            /\ disk' = disk]_vars
    /\ [][(pc = "boot" /\ pc' # "boot") =>
            \A key \in lost :
                (/\ key[2] = DateOf(now') /\ key[3] = TimeOf(now')
                 /\ key[1] \in DOMAIN users
                 /\ users[key[1]].has_location
                 /\ InSeq(key[3], users[key[1]].schedules))
                => /\ key \in expected'
                   /\ key \notin sent_notifications'
                   /\ pc' = "scan"
                   /\ ui' <= Len(snap')]_vars

\* the new process has sent the notification of a key the process before it
\* had marked, and marked it again
C29_Witness ==
    /\ pc = "scan"
    /\ \E key \in lost :
          /\ key[2] = DateOf(now) /\ key[3] = TimeOf(now)
          /\ Count(sends, key) = 1
          /\ key \in sent_notifications

\* C30: a registry reached through the operations of the storage, saved and
\* loaded from the saved file, comes back with the same user ids in the same
\* order and, for every user, the same coordinates, the same has_location
\* flag and the same schedule list in the same order
C30_RoundTrip ==
    LET loaded == load_data(save_data(Store(<<"ok">>)).disk)
    IN  /\ DOMAIN loaded.users = DOMAIN users
        /\ loaded.order = order
        /\ \A u \in DOMAIN users :
              /\ loaded.users[u].user_id = u
              /\ loaded.users[u].lat = users[u].lat
              /\ loaded.users[u].lon = users[u].lon
              /\ loaded.users[u].has_location = users[u].has_location
              /\ loaded.users[u].schedules = users[u].schedules

C30_Witness ==
    /\ 1 \in DOMAIN users
    /\ users[1].has_location
    /\ users[1].schedules = <<T(0, 0), T(9, 15), T(23, 45)>>
    /\ load_data(disk).users = users

\* C31: clear_schedules(u) returns the number of entries u's schedule list had
\* before the call (none for a user it creates), leaves the list empty, leaves
\* u's coordinates and has_location flag as they were and every other profile
\* as it was
C31_ClearSchedules ==
    [][\A u \in RegUids :
          (lastCall'.op = "clear_schedules" /\ lastCall'.uid = u)
          => LET before == IF u \in DOMAIN users THEN users[u] ELSE UserData(u)
             IN /\ lastCall'.ret[2] = Len(before.schedules)
                /\ DOMAIN users' = DOMAIN users \cup {u}
                /\ users'[u].schedules = <<>>
                /\ users'[u].lat = before.lat
                /\ users'[u].lon = before.lon
                /\ users'[u].has_location = before.has_location
                /\ \A v \in DOMAIN users \ {u} : users'[v] = users[v]]_vars

\* clear_schedules has cleared the two entries of a user with a location while
\* the other user has a location and entries
C31_Witness ==
    /\ lastCall.op = "clear_schedules"
    /\ lastCall.ret[2] = 2
    /\ lastCall.old # <<>>
    /\ Len(lastCall.old[1].schedules) = 2
    /\ users[lastCall.uid].has_location
    /\ users[lastCall.uid].schedules = <<>>
    /\ \E v \in DOMAIN users \ {lastCall.uid} :
          users[v].has_location /\ users[v].schedules # <<>>

\* C32: in every state, a user whose schedule list is not empty has a location
C32_TriggersNeedLocation ==
    \A u \in DOMAIN users : users[u].schedules # <<>> => users[u].has_location

\* C33: when the user presses the delete button of an entry of the delete
\* menu, the time on that button is taken out of the user's schedule list, and
\* nothing is taken out when the list does not hold that time any more
C33_DeleteWhatWasShown ==
    [][\A u \in ApiUids, idx \in 0..4 :
          (/\ lastCall'.op = "none"
           /\ OnMenu(u, <<"del", idx>>)
           /\ \E oks \in SaveOutcomes : HandleDeleteCallback(u, <<"del", idx>>, oks))
          => LET shown == menu[u][idx + 1]
                 before == SchedulesOf(users, u)
             IN SchedulesOf(users', u) =
                   IF InSeq(shown, before) THEN RemoveFirst(before, shown)
                                           ELSE before]_vars

\* C34: whenever the loop calls bot.send_message for a user, that user's
\* profile in the registry has a location at that moment, also when the
\* profile was reset after the tick listed the registry and before the loop
\* came to the user's entry
C34_NoSendWithoutLocation ==
    [][\A key \in DOMAIN sends' :
          Count(sends', key) > Count(sends, key)
          => /\ key[1] \in DOMAIN users
             /\ users[key[1]].has_location
             /\ users'[key[1]].has_location]_vars

\* the tick listed users 1 and 2, both due; user 2 was reset while the loop
\* awaited the send for user 1; the loop then came to user 2's entry, sent
\* nothing for it and marked its key
C34_Witness ==
    /\ PassEnd
    /\ order = <<1, 2>>
    /\ LET key1 == notification_key(1, DateOf(now), TimeOf(now))
           key2 == notification_key(2, DateOf(now), TimeOf(now))
       IN /\ {key1, key2} \subseteq expected
          /\ Count(sends, key1) = 1
          /\ Count(sends, key2) = 0
          /\ key2 \in sent_notifications
          /\ key2 \in failed
          /\ ~users[2].has_location

\* C35: a test notification leaves sent_notifications, every schedule list and
\* every location as they were (a user it creates has the default profile) and
\* leaves the scheduler's pass where it was; and whatever sent_notifications
\* holds, the test of a user with a location reaches bot.send_message when the
\* provider answers.  So a test neither keeps a scheduled notification of that
\* date from being sent nor has one sent
C35_TestIsIndependent ==
    /\ [][\A u \in TestUids :
            (\E oks \in SaveOutcomes, outcome \in ProviderOutcomes :
                SendTestNotification(u, TestText, oks, outcome))
            => /\ sent_notifications' = sent_notifications
               /\ \A v \in DOMAIN users : users'[v] = users[v]
               /\ \A v \in DOMAIN users' \ DOMAIN users : users'[v] = UserData(v)
               /\ tickVars' = tickVars
               /\ sends' = sends
               /\ tested'[u].result = "need_location" <=> ~users'[u].has_location]_vars
    /\ [](\A u \in TestUids :
            (LoopSuspended /\ u \in DOMAIN users /\ users[u].has_location)
            => ENABLED (/\ SendTestNotification(u, TestText, <<"ok", "ok">>, "ok")
                        /\ tested'[u].result = "sent"))

\* the test notification of a user with a schedule entry was sent while a key
\* of the user on that date was marked
C35_Witness ==
    /\ tested[1] = [result |-> "sent", marked |-> TRUE]
    /\ users[1].schedules # <<>>

====
